---------------------------- MODULE Spec2Model ----------------------------
(***************************************************************************)
(* Model of the SAM simulator core: the Detection Engine (class SAM,       *)
(* src/src/classes/SAM.ts) and the Beam Tracker (class SNR,                *)
(* src/unnamed/part_002), over the flight objects and missiles they share. *)
(*                                                                         *)
(* Fixed point: lengths are integers in metres (the code uses km floats),  *)
(* angles are integers in microradians (the code uses radian floats).      *)
(* Positions are drawn from a finite set of points on the coordinate axes, *)
(* where hypot and atan2 are exact in these units.                         *)
(***************************************************************************)
EXTENDS Integers, Sequences, FiniteSets, TLC

(***************************************************************************)
(* Bounds of the model.                                                    *)
(***************************************************************************)
\* no handler leaves more than MaxTimers follow-loop intervals live
MaxTimers == 3

(***************************************************************************)
(* Numeric helpers.                                                        *)
(***************************************************************************)
Abs(n) == IF n < 0 THEN -n ELSE n

RECURSIVE ISqrtIter(_, _, _)
ISqrtIter(n, lo, hi) ==
    IF lo >= hi THEN lo
    ELSE LET mid == (lo + hi + 1) \div 2
         IN  IF mid * mid <= n THEN ISqrtIter(n, mid, hi)
             ELSE ISqrtIter(n, lo, mid - 1)

\* Math.sqrt, rounded down, for 0 <= n < 2^31
ISqrt(n) == ISqrtIter(n, 0, 46340)

\* Math.hypot(x, y) in metres
Hypot(x, y) ==
    IF y = 0 THEN Abs(x)
    ELSE IF x = 0 THEN Abs(y)
    ELSE ISqrt(x * x + y * y)

\* pi in microradians
PI == 3141593

\* Math.atan2(y, x) in microradians for x > 0 and |y| < x / 10: the series
\* t - t^3 / 3 of the quotient t, the next term being below a microradian
AtanSmall(y, x) ==
    LET t == IF y >= 0
             THEN ((y * 1000) \div x) * 1000 + (((y * 1000) % x) * 1000) \div x
             ELSE -(((-y * 1000) \div x) * 1000
                     + (((-y * 1000) % x) * 1000) \div x)
        h == t \div 100
    IN  t - (h * h * h) \div 3000000

\* Math.cos of an angle in microradians, in thousandths, at the multiples
\* of a quarter turn
Cos(angle) ==
    LET q == ((2 * Abs(angle) + (PI \div 2)) \div PI) % 4
    IN  CASE q = 0 -> 1000
          [] q = 1 -> 0
          [] q = 2 -> -1000
          [] q = 3 -> 0

\* Math.atan2(y, x) in microradians, on the axes and the diagonals and
\* close to the positive x axis
Atan2(y, x) ==
    CASE x > 0 /\ y = 0  -> 0
      [] x = 0 /\ y = 0  -> 0
      [] x = 0 /\ y > 0  -> PI \div 2
      [] x = 0 /\ y < 0  -> -(PI \div 2)
      [] x < 0 /\ y = 0  -> PI
      [] x > 0 /\ y = x  -> PI \div 4
      [] x > 0 /\ y = -x -> -(PI \div 4)
      [] x < 0 /\ y = -x -> 3 * (PI \div 4)
      [] x < 0 /\ y = x  -> -(3 * (PI \div 4))
      [] x > 0 /\ y # 0 /\ Abs(y) * 10 < x -> AtanSmall(y, x)

\* heightOffset / distance in microradians, distance > 0 (rounded down)
AngleOf(heightOffset, distance) ==
    LET n == heightOffset * 1000
    IN  (n \div distance) * 1000 + ((n % distance) * 1000) \div distance

\* degrees to microradians: deg * Math.PI / 180, rounded towards 0
DegToRad(deg) ==
    IF deg >= 0 THEN (deg * PI) \div 180 ELSE -((-deg * PI) \div 180)

(***************************************************************************)
(* The flight entities, owned by external collaborators.                   *)
(***************************************************************************)
FlightObjectIds == {"a", "b"}
MissileIds == {1, 2}

\* FlightObject.velocity of every flight object
Velocity == 300

\* the identifier of no flight object (null)
NullId == "null"

Point(x, y, z) == [x |-> x, y |-> y, z |-> z]

\* where a flight object can be
Positions ==
    { Point(20000, 0, 36),     \* 20 km east, at the height of the SNR antenna
      Point(10000, 0, 36),     \* 10 km east, same bearing and vertical angle
      Point(60000, 0, 0),      \* 60 km east on the ground: below the horizon
      Point(1000, 0, 2036) }   \* overhead: above every elevation bound

\* where a flight object is before it starts
StartPoint == Point(60000, 0, 0)

\* the positions next to and away from the first missile position
KillZonePositions == { Point(20000, 0, 36), Point(10000, 0, 36) }

\* where a missile can be
MissilePositions ==
    { Point(20000, 0, 536),    \* 500 m above the first position
      Point(20000, 0, 1536) }  \* 1.5 km above the first position

\* where a missile is before it starts
MissileStartPoint == Point(20000, 0, 1536)

\* what missileTargetDistance can be
MissileTargetDistances == {500, 3000}

\* missileKillRadius of every missile
KillRadius == 1000

VARIABLES
    fo,                  \* FlightObject fields, by identifier
    ms,                  \* SAMissile fields, by identifier
    isEnabled,           \* SAM.isEnabled
    flightObjects,       \* SAM.flightObjects
    missiles,            \* SAM.missiles
    recognizedTargets,   \* SAM.recognizedTargets, in key order
    flightMissiles,      \* SAM.flightMissiles
    azimut,              \* SNR.azimut
    verticalAngle,       \* SNR.verticalAngle
    indicatorTargetDistance, \* SNR.targetDistance
    rayWidth,            \* SNR.rayWidth, degrees
    snrFlightObjects,    \* SNR.flightObjects
    snrMissiles,         \* SNR.missiles
    trackTargetInterval,         \* SNR.trackTargetInterval, 0 for null
    trackTargetDistanceInterval, \* SNR.trackTargetDistanceInterval, 0 for null
    trackingTargetIdentifier,    \* SNR.trackingTargetIdentifier
    timers,              \* the live intervals of the follow loops
    shownTargets,        \* the flight objects the target display represents
    events,              \* events the last handler passed to its eventListener
    calls,               \* calls the last handler made on collaborators
    lastOp,              \* the last handler that ran
    supply,              \* the state of the supply-panel store
    timeouts,            \* the pending timeouts of the supply-panel store
    powerCall            \* the argument of the last setEnabledPower call

samVars == <<isEnabled, flightObjects, missiles, recognizedTargets,
             flightMissiles>>

snrVars == <<azimut, verticalAngle, indicatorTargetDistance, rayWidth,
             snrFlightObjects,
             snrMissiles, trackTargetInterval, trackTargetDistanceInterval,
             trackingTargetIdentifier, timers, shownTargets>>

supplyVars == <<supply, timeouts, powerCall>>

vars == <<fo, ms, samVars, snrVars, supplyVars, events, calls, lastOp>>

(***************************************************************************)
(* The external FlightObject and SAMissile classes: what their             *)
(* capabilities do to their flags.                                         *)
(***************************************************************************)
\* FlightObject.kill()
kill(f, id) == [f EXCEPT ![id].isDestroyed = TRUE]

\* SAMissile.destroyMissile()
destroyMissile(m, id) == [m EXCEPT ![id].isDestroyedMissile = TRUE]

Call(op, id) == [op |-> op, id |-> id]
Event(name, arg) == [name |-> name, arg |-> arg]

(***************************************************************************)
(* Detection Engine: SAM_PARAMS in metres and microradians.                *)
(***************************************************************************)
RADAR_HEIGHT == 25
MIN_ELEVATION == -87266
MAX_ELEVATION == 872665
MISSILE_VELOCITY == 1200
\* 120 km
MAX_DISTANCE == 120000
\* 4 * (Math.PI / 180) and 18 * (Math.PI / 180)
RADAR_AZIMUT_DETECT_ACCURACY == 69813
RADAR_ELEVATION_DETECT_ACCURACY == 314159
RADAR_DISTANCE_WINDOW == 4000
DESIGNATION_ANGLE_ACCURACY == 17453
DESIGNATION_DISTANCE_ACCURACY == 1000
\* 2 * 6371.009 km
TWO_EARTH_RADIUS == 12742018

\* SAM.isInVision; Math.sqrt of a negative height is NaN and compares false
isInVision(point, targetDistance) ==
    /\ point.z >= 0
    /\ ISqrt(TWO_EARTH_RADIUS * RADAR_HEIGHT)
         + 10 * ISqrt((TWO_EARTH_RADIUS \div 100) * point.z) > targetDistance

\* targetElevation > MIN_ELEVATION && targetElevation < MAX_ELEVATION; at
\* distance 0 the quotient is +-Infinity or NaN and one comparison is false
inAllowedElevation(point, targetDistance) ==
    /\ targetDistance # 0
    /\ AngleOf(point.z - RADAR_HEIGHT, targetDistance) > MIN_ELEVATION
    /\ AngleOf(point.z - RADAR_HEIGHT, targetDistance) < MAX_ELEVATION

\* radialVelocity = velocity * Math.cos(targetAngle)
RadialVelocity(velocity, targetAzimut, currentRotation) ==
    LET targetAngle == (IF targetAzimut > currentRotation
                        THEN targetAzimut - currentRotation
                        ELSE currentRotation - targetAzimut) - PI
    IN  (velocity * Cos(targetAngle)) \div 1000

\* visibilityK > 1 ? 1 : visibilityK, in thousandths, of
\* MAX_DISTANCE * rcs / targetDistance with the distance in km
VisibilityK(r, targetDistance) ==
    LET visibilityK == (MAX_DISTANCE * r * 1000) \div targetDistance
    IN  IF visibilityK > 1000 THEN 1000 ELSE visibilityK

\* a faulty RecognizedTarget (C19): the azimut as Math.atan2 returns it
RecognizedTargetRawAzimut(id, point) ==
    LET targetDistance == Hypot(point.x, point.y)
        targetAzimut == Atan2(point.y, point.x)
    IN  [identifier |-> id,
         distance   |-> targetDistance,
         azimut     |-> targetAzimut,
         elevation  |-> AngleOf(point.z - RADAR_HEIGHT, targetDistance),
         radialVelocity |-> RadialVelocity(fo[id].velocity, targetAzimut,
                                           fo[id].currentRotation),
         height     |-> point.z,
         x          |-> point.x,
         y          |-> point.y,
         rotation   |-> fo[id].currentRotation,
         visibilityK |-> VisibilityK(fo[id].rcs, targetDistance)]

\* the IRecognizedTargets record written for flight object id at point
RecognizedTarget(id, point) ==
    LET targetDistance == Hypot(point.x, point.y)
        targetAzimut == Atan2(point.y, point.x)
    IN  [identifier |-> id,
         distance   |-> targetDistance,
         azimut     |-> IF targetAzimut < 0 THEN 2 * PI + targetAzimut
                        ELSE targetAzimut,
         elevation  |-> AngleOf(point.z - RADAR_HEIGHT, targetDistance),
         radialVelocity |-> RadialVelocity(fo[id].velocity, targetAzimut,
                                           fo[id].currentRotation),
         height     |-> point.z,
         x          |-> point.x,
         y          |-> point.y,
         rotation   |-> fo[id].currentRotation,
         visibilityK |-> VisibilityK(fo[id].rcs, targetDistance)]

\* a Record<string, ...> as the sequence of its values in key order
HasKey(rt, id) == \E i \in 1..Len(rt) : rt[i].identifier = id

\* this.recognizedTargets[id] = entry
PutTarget(rt, entry) ==
    IF HasKey(rt, entry.identifier)
    THEN [i \in 1..Len(rt) |->
            IF rt[i].identifier = entry.identifier THEN entry ELSE rt[i]]
    ELSE Append(rt, entry)

\* delete this.recognizedTargets[id]
DeleteTarget(rt, id) == SelectSeq(rt, LAMBDA e : e.identifier # id)

\* one iteration of the loop of SAM.recalculateTargets, on
\* s = [rt: recognizedTargets, ev: events emitted so far]
RecalculateTarget(s, id) ==
    LET flightObject == fo[id]
        point == flightObject.currentPoint
        targetDistance == Hypot(point.x, point.y)
        removed == [rt |-> DeleteTarget(s.rt, id),
                    ev |-> Append(s.ev, Event("delete", id))]
    IN  IF ~flightObject.isLaunched THEN s
        ELSE IF ~flightObject.isDestroyed
        THEN IF isInVision(point, targetDistance)
                /\ inAllowedElevation(point, targetDistance)
             THEN [rt |-> PutTarget(s.rt, RecognizedTarget(id, point)),
                   ev |-> s.ev]
             ELSE removed
        ELSE removed

RECURSIVE RecalculateTargetsFrom(_, _)
RecalculateTargetsFrom(i, s) ==
    IF i > Len(flightObjects) THEN s
    ELSE RecalculateTargetsFrom(i + 1, RecalculateTarget(s, flightObjects[i]))

\* SAM.recalculateTargets
recalculateTargets ==
    RecalculateTargetsFrom(1, [rt |-> recognizedTargets, ev |-> <<>>])

\* a faulty InKillRadius (C8): the distance to the missile taken in the horizontal plane
InKillRadiusHorizontal(p, q, radius) ==
    /\ Abs(p.x - q.x) <= radius
    /\ Abs(p.y - q.y) <= radius
    /\ (p.x - q.x) * (p.x - q.x) + (p.y - q.y) * (p.y - q.y) <= radius * radius

\* distanceToMissile <= missile.missileKillRadius, without squaring a
\* coordinate difference that alone exceeds the radius
InKillRadius(p, q, radius) ==
    /\ Abs(p.x - q.x) <= radius
    /\ Abs(p.y - q.y) <= radius
    /\ Abs(p.z - q.z) <= radius
    /\ (p.x - q.x) * (p.x - q.x) + (p.y - q.y) * (p.y - q.y)
         + (p.z - q.z) * (p.z - q.z) <= radius * radius

\* this.flightObjects.filter(...).map(fo => fo.kill()) from index i on, on
\* s = [fm, f: flight objects, m: missiles, calls]
RECURSIVE KillFrom(_, _, _)
KillFrom(i, s, missile) ==
    IF i > Len(flightObjects) THEN s
    ELSE LET id == flightObjects[i]
         IN  IF InKillRadius(s.f[id].currentPoint, missile.missileCurrentPoint,
                             missile.missileKillRadius)
             THEN KillFrom(i + 1, [s EXCEPT !.f = kill(s.f, id),
                                   !.calls = Append(s.calls, Call("kill", id))],
                           missile)
             ELSE KillFrom(i + 1, s, missile)

PutMissile(fm, id, snapshot) ==
    [k \in DOMAIN fm \cup {id} |-> IF k = id THEN snapshot ELSE fm[k]]

DeleteMissile(fm, id) == [k \in DOMAIN fm \ {id} |-> fm[k]]

\* one iteration of the loop of SAM.recalculateMissiles
RecalculateMissile(s, id) ==
    LET missile == s.m[id]
        snapshot == [identifier |-> id,
                     x |-> missile.missileCurrentPoint.x,
                     y |-> missile.missileCurrentPoint.y,
                     z |-> missile.missileCurrentPoint.z,
                     velocity |-> MISSILE_VELOCITY]
        put == [s EXCEPT !.fm = PutMissile(s.fm, id, snapshot)]
    IN  IF ~missile.isDestroyedMissile
        THEN IF missile.missileTargetDistance <= missile.missileKillRadius
             THEN KillFrom(1, [put EXCEPT
                                 !.m = destroyMissile(put.m, id),
                                 !.calls = Append(put.calls,
                                                  Call("destroyMissile", id))],
                           missile)
             ELSE put
        ELSE [s EXCEPT !.fm = DeleteMissile(s.fm, id)]

RECURSIVE RecalculateMissilesFrom(_, _)
RecalculateMissilesFrom(i, s) ==
    IF i > Len(missiles) THEN s
    ELSE RecalculateMissilesFrom(i + 1, RecalculateMissile(s, missiles[i]))

\* SAM.recalculateMissiles
recalculateMissiles ==
    RecalculateMissilesFrom(1, [fm |-> flightMissiles, f |-> fo, m |-> ms,
                                calls |-> <<>>])

\* Object.keys of a record with integer keys: ascending
RECURSIVE SortedKeys(_)
SortedKeys(S) ==
    IF S = {} THEN <<>>
    ELSE LET least == CHOOSE x \in S : \A y \in S : x <= y
         IN  <<least>> \o SortedKeys(S \ {least})

\* Object.keys(map).map(id => map[id]) of flightMissiles
MissileList(fm) ==
    LET keys == SortedKeys(DOMAIN fm) IN [i \in 1..Len(keys) |-> fm[keys[i]]]

(***************************************************************************)
(* Detection Engine: operations.                                           *)
(***************************************************************************)
Op(name) == [op |-> name]

\* SAM.setIsEnabled
setIsEnabled(value) ==
    /\ isEnabled' = value
    /\ events' = <<>>
    /\ calls' = <<>>
    /\ lastOp' = Op("setIsEnabled")
    /\ UNCHANGED <<fo, ms, flightObjects, missiles, recognizedTargets,
                   flightMissiles, snrVars, supplyVars>>

\* SAM.addFlightObject: the registry is append-only, each object once
addFlightObject(id) ==
    /\ \A i \in 1..Len(flightObjects) : flightObjects[i] # id
    /\ flightObjects' = Append(flightObjects, id)
    /\ events' = <<>>
    /\ calls' = <<>>
    /\ lastOp' = Op("addFlightObject")
    /\ UNCHANGED <<fo, ms, isEnabled, missiles, recognizedTargets,
                   flightMissiles, snrVars, supplyVars>>

\* SAM.addMissile
addMissile(id) ==
    /\ \A i \in 1..Len(missiles) : missiles[i] # id
    /\ missiles' = Append(missiles, id)
    /\ events' = <<>>
    /\ calls' = <<>>
    /\ lastOp' = Op("addMissile")
    /\ UNCHANGED <<fo, ms, isEnabled, flightObjects, recognizedTargets,
                   flightMissiles, snrVars, supplyVars>>

\* a faulty Tick (C10): the first interval without the test of isEnabled
TickAlways ==
    /\ lastOp' = Op("tick")
    /\ LET t == recalculateTargets
           m == recalculateMissiles
       IN  /\ recognizedTargets' = t.rt
           /\ flightMissiles' = m.fm
           /\ fo' = m.f
           /\ ms' = m.m
           /\ calls' = m.calls
           /\ events' = Append(t.ev,
                  Event("update", [targets  |-> t.rt,
                                   missiles |-> MissileList(m.fm)]))
    /\ UNCHANGED <<isEnabled, flightObjects, missiles, snrVars, supplyVars>>

\* the first interval of SAM.tick
Tick ==
    /\ lastOp' = Op("tick")
    /\ IF isEnabled
       THEN LET t == recalculateTargets
                m == recalculateMissiles
            IN  /\ recognizedTargets' = t.rt
                /\ flightMissiles' = m.fm
                /\ fo' = m.f
                /\ ms' = m.m
                /\ calls' = m.calls
                /\ events' = Append(t.ev,
                       Event("update", [targets  |-> t.rt,
                                        missiles |-> MissileList(m.fm)]))
       ELSE /\ events' = <<>>
            /\ calls' = <<>>
            /\ UNCHANGED <<fo, ms, recognizedTargets, flightMissiles>>
    /\ UNCHANGED <<isEnabled, flightObjects, missiles, snrVars, supplyVars>>

\* the second interval of SAM.tick, every RADAR_UPDATE_INTERVAL
TickBIP ==
    /\ lastOp' = Op("tickBIP")
    /\ events' = IF isEnabled
                 THEN <<Event("updateBIP",
                              [i \in 1..Len(flightObjects) |->
                                 [identifier |-> flightObjects[i]]])>>
                 ELSE <<>>
    /\ calls' = <<>>
    /\ UNCHANGED <<fo, ms, samVars, snrVars, supplyVars>>

\* SAM.getFlightObject finds a flight object with this identifier
InRegistry(id) == \E i \in 1..Len(flightObjects) : flightObjects[i] = id

\* the predicate of SAM.getTargetOnAzimutAndElevation
OnAzimutAndElevation(target, az, el) ==
    /\ 2 * Abs(target.azimut - az) <= RADAR_AZIMUT_DETECT_ACCURACY
    /\ 2 * Abs(el - target.elevation) <= RADAR_ELEVATION_DETECT_ACCURACY

\* Object.keys(this.recognizedTargets).find(...) || null from key i on
RECURSIVE FindTargetFrom(_, _, _)
FindTargetFrom(i, az, el) ==
    IF i > Len(recognizedTargets) THEN NullId
    ELSE IF OnAzimutAndElevation(recognizedTargets[i], az, el)
         THEN recognizedTargets[i].identifier
         ELSE FindTargetFrom(i + 1, az, el)

\* SAM.getTargetOnAzimutAndElevation
getTargetOnAzimutAndElevation(az, el) ==
    /\ lastOp' = [op |-> "getTargetOnAzimutAndElevation", azimut |-> az,
                  elevation |-> el, result |-> FindTargetFrom(1, az, el)]
    /\ events' = <<>>
    /\ calls' = <<>>
    /\ UNCHANGED <<fo, ms, samVars, snrVars, supplyVars>>

\* accuracy * (Math.random() * 2 - 1), random the value of Math.random()
\* in thousandths
Jitter(accuracy, random) == (accuracy * (random * 2 - 1000)) \div 1000

\* what SAM.getFlightObjectDesignation returns for a registered live
\* flight object at point
Designation(point, randomAzimut, randomElevation, randomDistance) ==
    LET targetDistance == Hypot(point.x, point.y)
        targetAzimut == Atan2(point.y, point.x)
        targetElevation == AngleOf(point.z - RADAR_HEIGHT, targetDistance)
    IN  [azimut |-> targetAzimut
                      + Jitter(DESIGNATION_ANGLE_ACCURACY, randomAzimut),
         elevation |-> targetElevation
                      + Jitter(DESIGNATION_ANGLE_ACCURACY, randomElevation),
         distance |-> IF targetDistance > MAX_DISTANCE
                      THEN MAX_DISTANCE - RADAR_DISTANCE_WINDOW
                      ELSE targetDistance
                             + Jitter(DESIGNATION_DISTANCE_ACCURACY,
                                      randomDistance)]

\* SAM.getFlightObjectDesignation; the three arguments after id are what
\* Math.random() returns
getFlightObjectDesignation(id, randomAzimut, randomElevation, randomDistance) ==
    /\ lastOp' =
         [op |-> "getFlightObjectDesignation", id |-> id,
          found |-> InRegistry(id) /\ ~fo[id].isDestroyed,
          result |-> IF InRegistry(id) /\ ~fo[id].isDestroyed
                     THEN Designation(fo[id].currentPoint, randomAzimut,
                                      randomElevation, randomDistance)
                     ELSE [azimut |-> 0, elevation |-> 0, distance |-> 0]]
    /\ events' = <<>>
    /\ calls' = <<>>
    /\ UNCHANGED <<fo, ms, samVars, snrVars, supplyVars>>

(***************************************************************************)
(* Beam Tracker: the fields set in the class body and the configuration    *)
(* the constructor receives, in metres, degrees and microradians.          *)
(***************************************************************************)
minVerticalAngle == -5
maxVerticalAngle == 75
radarHeight == 36
distanceDetectRange == 2000
initialDistance == 20000
initialRayWidth == 4
maxDistance == 50000
\* FlightObject.rcs of every flight object, square metres
rcs == 10
\* 4 / pi, times 10^6
FOUR_OVER_PI == 1273240

\* 2 * Math.sqrt(rcs / Math.PI) / 1000 km, in millimetres
TargetSize(r) == ISqrt(FOUR_OVER_PI * r)

\* targetHeightOffset / targetDistance of the SNR
VerticalAngleOf(point) ==
    AngleOf(point.z - radarHeight, Hypot(point.x, point.y))

\* targetSpotAngle of captureTargetByDirection:
\* ((size / targetDistance) / rayWidth), rayWidth the linear width
\* Math.PI * rayWidthRad * targetDistance / 180, for distances of 100 m up
TargetSpotAngle(point, width) ==
    LET hm == Hypot(point.x, point.y) \div 100
        piRayWidthRad == (DegToRad(width) * (PI \div 1000)) \div 1000
    IN  (((TargetSize(rcs) * 180 * 1000) \div piRayWidthRad) * 100000)
          \div (hm * hm)

\* the state the handlers of the SNR work on
SnrState ==
    [azimut |-> azimut, verticalAngle |-> verticalAngle,
     targetDistance |-> indicatorTargetDistance,
     trackTargetInterval |-> trackTargetInterval,
     trackTargetDistanceInterval |-> trackTargetDistanceInterval,
     trackingTargetIdentifier |-> trackingTargetIdentifier,
     timers |-> timers,
     m |-> ms, events |-> <<>>, calls |-> <<>>]

Emit(s, name, arg) == [s EXCEPT !.events = Append(@, Event(name, arg))]
Invoke(s, op, id) == [s EXCEPT !.calls = Append(@, Call(op, id))]

\* the handle setInterval returns: a positive integer that identifies no
\* live timer (the least one)
NewHandle(s) ==
    CHOOSE h \in 1..(Cardinality(s.timers) + 1) :
        /\ \A t \in s.timers : t.handle # h
        /\ \A g \in 1..(h - 1) : \E t \in s.timers : t.handle = g

\* setInterval(callback following flightObject id)
SetInterval(s, kind, id) ==
    [s EXCEPT !.timers = @ \cup {[handle |-> NewHandle(s), kind |-> kind,
                                  flightObject |-> id]}]

\* handle && clearInterval(handle)
ClearInterval(s, handle) ==
    [s EXCEPT !.timers = {t \in @ : t.handle # handle}]

\* this.missiles.forEach((missile) => missile.destroyMissile())
RECURSIVE DestroyMissilesFrom(_, _)
DestroyMissilesFrom(i, s) ==
    IF i > Len(snrMissiles) THEN s
    ELSE DestroyMissilesFrom(i + 1,
             Invoke([s EXCEPT !.m = destroyMissile(@, snrMissiles[i])],
                    "destroyMissile", snrMissiles[i]))

\* SNR.resetCaptureTargetByDistance
resetCaptureTargetByDistance(s) ==
    Emit([ClearInterval(s, s.trackTargetDistanceInterval)
            EXCEPT !.trackTargetDistanceInterval = 0],
         "isCapturedByDistance", FALSE)

\* a faulty resetCaptureTargetByDirection (C22): the missiles are left alone
resetCaptureTargetByDirectionKeepMissiles(s) ==
    resetCaptureTargetByDistance(
        Emit([ClearInterval(s, s.trackTargetInterval)
                EXCEPT !.trackTargetInterval = 0,
                       !.trackingTargetIdentifier = NullId],
             "isCapturedByDirection", FALSE))

\* SNR.resetCaptureTargetByDirection
resetCaptureTargetByDirection(s) ==
    resetCaptureTargetByDistance(
        DestroyMissilesFrom(1,
            Emit([ClearInterval(s, s.trackTargetInterval)
                    EXCEPT !.trackTargetInterval = 0,
                           !.trackingTargetIdentifier = NullId],
                 "isCapturedByDirection", FALSE)))

\* a faulty trackTargetByDirection (C30): the interval that is running is
\* not cleared
trackTargetByDirectionNoClear(s, id) ==
    LET c == [s EXCEPT !.trackingTargetIdentifier = id]
    IN  [SetInterval(c, "direction", id)
           EXCEPT !.trackTargetInterval = NewHandle(c)]

\* SNR.trackTargetByDirection
trackTargetByDirection(s, id) ==
    LET c == [ClearInterval(s, s.trackTargetInterval)
                EXCEPT !.trackingTargetIdentifier = id]
    IN  [SetInterval(c, "direction", id)
           EXCEPT !.trackTargetInterval = NewHandle(c)]

\* the callback of the interval of trackTargetByDirection
TrackTargetByDirectionStep(s, id) ==
    LET point == fo[id].currentPoint
        targetAzimutAngle == Atan2(point.y, point.x)
        targetVerticalAngle == VerticalAngleOf(point)
        r == IF \/ targetVerticalAngle < DegToRad(minVerticalAngle)
                \/ targetVerticalAngle > DegToRad(maxVerticalAngle)
             THEN resetCaptureTargetByDistance(resetCaptureTargetByDirection(s))
             ELSE s
    IN  [r EXCEPT !.azimut = targetAzimutAngle,
                  !.verticalAngle = targetVerticalAngle]

\* one iteration of the forEach of SNR.captureTargetByDirection
CaptureByDirection(s, id) ==
    LET point == fo[id].currentPoint
        targetAzimutAngle == Atan2(point.y, point.x)
        targetSpotAngle == TargetSpotAngle(point, rayWidth)
        isCapturedByAzimut ==
            Abs(s.azimut - targetAzimutAngle) < Abs(targetSpotAngle) * 2
        isCapturedByVerticalAngle ==
            Abs(s.verticalAngle - VerticalAngleOf(point)) < Abs(targetSpotAngle)
    IN  IF isCapturedByAzimut /\ isCapturedByVerticalAngle
        THEN Emit(trackTargetByDirection(s, id), "isCapturedByDirection", TRUE)
        ELSE s

RECURSIVE CaptureByDirectionFrom(_, _)
CaptureByDirectionFrom(i, s) ==
    IF i > Len(snrFlightObjects) THEN s
    ELSE CaptureByDirectionFrom(i + 1,
                                CaptureByDirection(s, snrFlightObjects[i]))

\* SNR.captureTargetByDirection
captureTargetByDirection(s) == CaptureByDirectionFrom(1, s)

\* SNR.trackTargetByDistance
trackTargetByDistance(s) ==
    LET c == ClearInterval(s, s.trackTargetDistanceInterval)
    IN  [SetInterval(c, "distance", s.trackingTargetIdentifier)
           EXCEPT !.trackTargetDistanceInterval = NewHandle(c)]

\* the callback of the interval of trackTargetByDistance
TrackTargetByDistanceStep(s, id) ==
    LET point == fo[id].currentPoint
        distance == Hypot(point.x, point.y)
        r == IF distance > maxDistance
             THEN resetCaptureTargetByDistance(resetCaptureTargetByDirection(s))
             ELSE s
    IN  Invoke([r EXCEPT !.targetDistance = distance],
               "distance.setDistance", distance)

\* a faulty CaptureByDistance (C2): the iteration without the test of trackingTargetIdentifier
CaptureByDistanceAnyTarget(s, id) ==
    LET point == fo[id].currentPoint
        distance == Hypot(point.x, point.y)
    IN  IF Abs(distance - s.targetDistance) < distanceDetectRange
        THEN Emit(trackTargetByDistance(s), "isCapturedByDistance", TRUE)
        ELSE s

\* one iteration of the forEach of SNR.captureTargetByDistance
CaptureByDistance(s, id) ==
    LET point == fo[id].currentPoint
        distance == Hypot(point.x, point.y)
    IN  IF /\ Abs(distance - s.targetDistance) < distanceDetectRange
           /\ s.trackingTargetIdentifier = id
        THEN Emit(trackTargetByDistance(s), "isCapturedByDistance", TRUE)
        ELSE s

RECURSIVE CaptureByDistanceFrom(_, _)
CaptureByDistanceFrom(i, s) ==
    IF i > Len(snrFlightObjects) THEN s
    ELSE CaptureByDistanceFrom(i + 1, CaptureByDistance(s, snrFlightObjects[i]))

\* SNR.captureTargetByDistance
captureTargetByDistance(s) == CaptureByDistanceFrom(1, s)

\* a faulty CalculateTargetParams (C17): a destroyed tracked target is taken
\* off the displays and the capture is kept
CalculateTargetParamsKeepCapture(s, id) ==
    LET flightObject == fo[id]
        point == flightObject.currentPoint
        targetAzimutOffset == s.azimut - Atan2(point.y, point.x)
        targetVerticalOffset == VerticalAngleOf(point) - s.verticalAngle
        rayWidthRad == DegToRad(rayWidth)
        shown ==
            IF flightObject.isLaunched /\ ~flightObject.isDestroyed
            THEN IF /\ 2 * Abs(targetAzimutOffset) < rayWidthRad
                    /\ 2 * Abs(targetVerticalOffset) < rayWidthRad
                 THEN Invoke(Invoke(s, "target.setTargetParams", id),
                             "distance.setTargetParams", id)
                 ELSE Invoke(Invoke(s, "target.removeTarget", id),
                             "distance.removeTarget", id)
            ELSE s
        told ==
            IF /\ id = shown.trackingTargetIdentifier
               /\ shown.trackTargetInterval # 0
               /\ shown.trackTargetDistanceInterval # 0
            THEN Emit(Emit(Emit(shown,
                     "targetDistance", (shown.targetDistance + 50) \div 100),
                     "targetVelocity", flightObject.velocity),
                     "targetHeight", Abs(point.z))
            ELSE shown
    IN  IF flightObject.isDestroyed /\ told.trackingTargetIdentifier = id
        THEN Invoke(Invoke(told, "target.removeTarget", id),
                    "distance.removeTarget", id)
        ELSE told

\* a faulty CalculateTargetParams (C18): the offsets are compared with the
\* whole beam width
CalculateTargetParamsFullWidth(s, id) ==
    LET flightObject == fo[id]
        point == flightObject.currentPoint
        targetAzimutOffset == s.azimut - Atan2(point.y, point.x)
        targetVerticalOffset == VerticalAngleOf(point) - s.verticalAngle
        rayWidthRad == DegToRad(rayWidth)
        shown ==
            IF flightObject.isLaunched /\ ~flightObject.isDestroyed
            THEN IF /\ Abs(targetAzimutOffset) < rayWidthRad
                    /\ Abs(targetVerticalOffset) < rayWidthRad
                 THEN Invoke(Invoke(s, "target.setTargetParams", id),
                             "distance.setTargetParams", id)
                 ELSE Invoke(Invoke(s, "target.removeTarget", id),
                             "distance.removeTarget", id)
            ELSE s
        told ==
            IF /\ id = shown.trackingTargetIdentifier
               /\ shown.trackTargetInterval # 0
               /\ shown.trackTargetDistanceInterval # 0
            THEN Emit(Emit(Emit(shown,
                     "targetDistance", (shown.targetDistance + 50) \div 100),
                     "targetVelocity", flightObject.velocity),
                     "targetHeight", Abs(point.z))
            ELSE shown
    IN  IF flightObject.isDestroyed /\ told.trackingTargetIdentifier = id
        THEN Invoke(Invoke(
                 resetCaptureTargetByDistance(resetCaptureTargetByDirection(told)),
                 "target.removeTarget", id), "distance.removeTarget", id)
        ELSE told

\* one iteration of the loop of SNR.calculateTargetsParams
CalculateTargetParams(s, id) ==
    LET flightObject == fo[id]
        point == flightObject.currentPoint
        targetAzimutOffset == s.azimut - Atan2(point.y, point.x)
        targetVerticalOffset == VerticalAngleOf(point) - s.verticalAngle
        rayWidthRad == DegToRad(rayWidth)
        shown ==
            IF flightObject.isLaunched /\ ~flightObject.isDestroyed
            THEN IF /\ 2 * Abs(targetAzimutOffset) < rayWidthRad
                    /\ 2 * Abs(targetVerticalOffset) < rayWidthRad
                 THEN Invoke(Invoke(s, "target.setTargetParams", id),
                             "distance.setTargetParams", id)
                 ELSE Invoke(Invoke(s, "target.removeTarget", id),
                             "distance.removeTarget", id)
            ELSE s
        told ==
            IF /\ id = shown.trackingTargetIdentifier
               /\ shown.trackTargetInterval # 0
               /\ shown.trackTargetDistanceInterval # 0
            THEN Emit(Emit(Emit(shown,
                     "targetDistance", (shown.targetDistance + 50) \div 100),
                     "targetVelocity", flightObject.velocity),
                     "targetHeight", Abs(point.z))
            ELSE shown
    IN  IF flightObject.isDestroyed /\ told.trackingTargetIdentifier = id
        THEN Invoke(Invoke(
                 resetCaptureTargetByDistance(resetCaptureTargetByDirection(told)),
                 "target.removeTarget", id), "distance.removeTarget", id)
        ELSE told

RECURSIVE CalculateTargetsParamsFrom(_, _)
CalculateTargetsParamsFrom(i, s) ==
    IF i > Len(snrFlightObjects) THEN s
    ELSE CalculateTargetsParamsFrom(i + 1,
             CalculateTargetParams(s, snrFlightObjects[i]))

\* SNR.calculateTargetsParams
calculateTargetsParams(s) == CalculateTargetsParamsFrom(1, s)

RECURSIVE CalculateMissilesFrom(_, _)
CalculateMissilesFrom(i, s) ==
    IF i > Len(snrMissiles) THEN s
    ELSE LET id == snrMissiles[i]
         IN  CalculateMissilesFrom(i + 1,
                 IF ~s.m[id].isDestroyedMissile
                 THEN Invoke(Invoke(s, "target.setMissileParams", id),
                             "distance.setMissileParams", id)
                 ELSE Invoke(Invoke(s, "target.removeMissile", id),
                             "distance.removeMissile", id))

\* SNR.calculateMissiles
calculateMissiles(s) == CalculateMissilesFrom(1, s)

(***************************************************************************)
(* Beam Tracker: operations.                                               *)
(***************************************************************************)
\* the handler that ran, and the capture state it started from
SnrOp(name) ==
    [op |-> name, direction |-> trackTargetInterval # 0,
     distance |-> trackTargetDistanceInterval # 0]

\* the representations the target display holds after the calls cs from
\* call i on: setTargetParams draws or redraws one, removeTarget removes it
RECURSIVE TargetScreenAfter(_, _, _)
TargetScreenAfter(shown, cs, i) ==
    IF i > Len(cs) THEN shown
    ELSE TargetScreenAfter(
             IF cs[i].op = "target.setTargetParams" THEN shown \cup {cs[i].id}
             ELSE IF cs[i].op = "target.removeTarget" THEN shown \ {cs[i].id}
             ELSE shown,
             cs, i + 1)

\* the handler named name leaves the SNR in state s
SnrCommit(s, name) ==
    /\ Cardinality(s.timers) <= MaxTimers
    /\ shownTargets' = TargetScreenAfter(shownTargets, s.calls, 1)
    /\ azimut' = s.azimut
    /\ verticalAngle' = s.verticalAngle
    /\ indicatorTargetDistance' = s.targetDistance
    /\ trackTargetInterval' = s.trackTargetInterval
    /\ trackTargetDistanceInterval' = s.trackTargetDistanceInterval
    /\ trackingTargetIdentifier' = s.trackingTargetIdentifier
    /\ timers' = s.timers
    /\ ms' = s.m
    /\ events' = s.events
    /\ calls' = s.calls
    /\ lastOp' = SnrOp(name)
    /\ UNCHANGED <<fo, rayWidth, snrFlightObjects, snrMissiles, samVars, supplyVars>>

\* SNR.setAzimut
setAzimut(deg) ==
    LET a1 == IF deg > 360 THEN deg - 360 ELSE deg
        a2 == IF a1 < 0 THEN 360 + a1 ELSE a1
        a3 == IF a2 > 270 THEN a2 - 360 ELSE a2
        s  == [SnrState EXCEPT !.azimut = DegToRad(a3 - 90)]
    IN  SnrCommit(Invoke(s, "indicators.setAzimut", s.azimut), "setAzimut")

\* a faulty setVerticalAngle (C14): the bounds themselves are accepted
setVerticalAngleInclusive(deg) ==
    IF deg >= minVerticalAngle /\ deg <= maxVerticalAngle
    THEN LET s == [SnrState EXCEPT !.verticalAngle = DegToRad(deg)]
         IN  SnrCommit(Invoke(s, "indicators.setVerticalAngle", s.verticalAngle),
                       "setVerticalAngle")
    ELSE SnrCommit(SnrState, "setVerticalAngle")

\* SNR.setVerticalAngle
setVerticalAngle(deg) ==
    IF deg > minVerticalAngle /\ deg < maxVerticalAngle
    THEN LET s == [SnrState EXCEPT !.verticalAngle = DegToRad(deg)]
         IN  SnrCommit(Invoke(s, "indicators.setVerticalAngle", s.verticalAngle),
                       "setVerticalAngle")
    ELSE SnrCommit(SnrState, "setVerticalAngle")

\* SNR.setIndicatorTargetDistance
setIndicatorTargetDistance(distance) ==
    IF distance > 0 /\ distance < maxDistance
    THEN SnrCommit(Invoke([SnrState EXCEPT !.targetDistance = distance],
                          "distance.setDistance", distance),
                   "setIndicatorTargetDistance")
    ELSE SnrCommit(SnrState, "setIndicatorTargetDistance")

\* SNR.addFlightObject: the registry is append-only, each object once
snrAddFlightObject(id) ==
    /\ ~\E i \in 1..Len(snrFlightObjects) : snrFlightObjects[i] = id
    /\ snrFlightObjects' = Append(snrFlightObjects, id)
    /\ events' = <<>>
    /\ calls' = <<>>
    /\ lastOp' = SnrOp("addFlightObject")
    /\ UNCHANGED <<fo, ms, samVars, supplyVars, azimut, verticalAngle, indicatorTargetDistance,
                   rayWidth, snrMissiles, trackTargetInterval,
                   trackTargetDistanceInterval, trackingTargetIdentifier,
                   timers, shownTargets>>

\* SNR.addMissile
snrAddMissile(id) ==
    /\ ~\E i \in 1..Len(snrMissiles) : snrMissiles[i] = id
    /\ snrMissiles' = Append(snrMissiles, id)
    /\ events' = <<>>
    /\ calls' = <<>>
    /\ lastOp' = SnrOp("addMissile")
    /\ UNCHANGED <<fo, ms, samVars, supplyVars, azimut, verticalAngle, indicatorTargetDistance,
                   rayWidth, snrFlightObjects, trackTargetInterval,
                   trackTargetDistanceInterval, trackingTargetIdentifier,
                   timers, shownTargets>>

\* SNR.captureTargetByDirection
CaptureTargetByDirection ==
    SnrCommit(captureTargetByDirection(SnrState), "captureTargetByDirection")

\* SNR.resetCaptureTargetByDirection
ResetCaptureTargetByDirection ==
    SnrCommit(resetCaptureTargetByDirection(SnrState),
              "resetCaptureTargetByDirection")

\* SNR.captureTargetByDistance
CaptureTargetByDistance ==
    SnrCommit(captureTargetByDistance(SnrState), "captureTargetByDistance")

\* SNR.resetCaptureTargetByDistance
ResetCaptureTargetByDistance ==
    SnrCommit(resetCaptureTargetByDistance(SnrState),
              "resetCaptureTargetByDistance")

\* the interval of the constructor of the SNR
SnrTick ==
    SnrCommit(calculateMissiles(calculateTargetsParams(SnrState)), "snrTick")

\* a firing of a live interval of trackTargetByDirection
TrackTargetByDirectionTick ==
    \E t \in timers :
        /\ t.kind = "direction"
        /\ SnrCommit(TrackTargetByDirectionStep(SnrState, t.flightObject),
                     "trackTargetByDirectionTick")

\* a firing of a live interval of trackTargetByDistance
TrackTargetByDistanceTick ==
    \E t \in timers :
        /\ t.kind = "distance"
        /\ SnrCommit(TrackTargetByDistanceStep(SnrState, t.flightObject),
                     "trackTargetByDistanceTick")

(***************************************************************************)
(* The supply-panel store, which switches the Detection Engine on and off. *)
(* Time is counted in milliseconds, and passes in steps of the shortest    *)
(* delay.                                                                  *)
(***************************************************************************)
PowerDelay == 3000
MainRadarDelay == 1000
TransmitterDelay == 500

\* state() and setDefaultValues
DefaultValues ==
    [isEnabledPower |-> FALSE, isEnabledMainRadar |-> FALSE,
     isEnabledTargetRadarTransmitter |-> FALSE]

\* setTimeout(callback, delay): the new timeout gets the least free handle
SetTimeout(kind, delay) ==
    /\ Cardinality(timeouts) < MaxTimers
    /\ LET h == CHOOSE g \in 1..(Cardinality(timeouts) + 1) :
                    /\ \A t \in timeouts : t.handle # g
                    /\ \A k \in 1..(g - 1) : \E t \in timeouts : t.handle = k
       IN  timeouts' = timeouts \cup
               {[handle |-> h, kind |-> kind, remaining |-> delay]}

\* what a handler of the store leaves alone
SupplyFrame(name) ==
    /\ events' = <<>>
    /\ calls' = <<>>
    /\ lastOp' = Op(name)
    /\ UNCHANGED <<fo, ms, flightObjects, missiles, recognizedTargets,
                   flightMissiles, snrVars>>

\* useSupplyPanelStore.setEnabledPower
setEnabledPower(value) ==
    /\ powerCall' = value
    /\ IF value
       THEN /\ SetTimeout("power", PowerDelay)
            /\ UNCHANGED <<supply, isEnabled>>
       ELSE /\ isEnabled' = FALSE
            /\ supply' = DefaultValues
            /\ UNCHANGED timeouts
    /\ SupplyFrame("setEnabledPower")

\* useSupplyPanelStore.setEnablerMainRadar
setEnablerMainRadar(value) ==
    /\ IF ~supply.isEnabledPower
       THEN UNCHANGED <<supply, timeouts>>
       ELSE IF value
            THEN /\ SetTimeout("mainRadar", MainRadarDelay)
                 /\ UNCHANGED supply
            ELSE /\ supply' = [supply EXCEPT !.isEnabledMainRadar = FALSE]
                 /\ UNCHANGED timeouts
    /\ UNCHANGED <<isEnabled, powerCall>>
    /\ SupplyFrame("setEnablerMainRadar")

\* useSupplyPanelStore.setIsEnabledTargetRadarTransmitter
setIsEnabledTargetRadarTransmitter(value) ==
    /\ IF ~supply.isEnabledPower
       THEN UNCHANGED <<supply, timeouts>>
       ELSE IF value
            THEN /\ SetTimeout("transmitter", TransmitterDelay)
                 /\ UNCHANGED supply
            ELSE /\ supply' = [supply EXCEPT
                                 !.isEnabledTargetRadarTransmitter = FALSE]
                 /\ UNCHANGED timeouts
    /\ UNCHANGED <<isEnabled, powerCall>>
    /\ SupplyFrame("setIsEnabledTargetRadarTransmitter")

\* the callback of a timeout that is due; clearTimeout(i) of a timeout that
\* has fired changes nothing
TimeoutFires ==
    \E t \in timeouts :
        /\ t.remaining = 0
        /\ timeouts' = timeouts \ {t}
        /\ IF t.kind = "power"
           THEN /\ supply' = [supply EXCEPT !.isEnabledPower = TRUE]
                /\ isEnabled' = TRUE
           ELSE /\ supply' =
                     IF t.kind = "mainRadar"
                     THEN [supply EXCEPT !.isEnabledMainRadar = TRUE]
                     ELSE [supply EXCEPT
                             !.isEnabledTargetRadarTransmitter = TRUE]
                /\ UNCHANGED isEnabled
        /\ UNCHANGED powerCall
        /\ SupplyFrame("timeout")

\* time passes while a timeout is pending and none is due
TimePasses ==
    /\ timeouts # {}
    /\ \A t \in timeouts : t.remaining > 0
    /\ timeouts' = {[t EXCEPT !.remaining = @ - TransmitterDelay] : t \in timeouts}
    /\ UNCHANGED <<supply, isEnabled, powerCall>>
    /\ SupplyFrame("timePasses")

(***************************************************************************)
(* The environment: what the owners of the flight entities do to them      *)
(* between handlers.                                                       *)
(***************************************************************************)
EnvFrame ==
    /\ events' = <<>>
    /\ calls' = <<>>
    /\ lastOp' = Op("environment")
    /\ UNCHANGED <<samVars, snrVars, supplyVars>>

\* isLaunched is set or cleared
SetLaunched(id, value) ==
    /\ fo[id].isLaunched # value
    /\ fo' = [fo EXCEPT ![id].isLaunched = value]
    /\ UNCHANGED ms
    /\ EnvFrame

\* an object is put at another point
Move(id, point) ==
    /\ ~fo[id].isDestroyed
    /\ fo[id].currentPoint # point
    /\ fo' = [fo EXCEPT ![id].currentPoint = point]
    /\ UNCHANGED ms
    /\ EnvFrame

\* an object is destroyed by its owner
Destroy(id) ==
    /\ ~fo[id].isDestroyed
    /\ fo' = kill(fo, id)
    /\ UNCHANGED ms
    /\ EnvFrame

\* the radar cross-section of an object is set
SetRcs(id, value) ==
    /\ fo[id].rcs # value
    /\ fo' = [fo EXCEPT ![id].rcs = value]
    /\ UNCHANGED ms
    /\ EnvFrame

\* an object turns to another heading
SetRotation(id, value) ==
    /\ fo[id].currentRotation # value
    /\ fo' = [fo EXCEPT ![id].currentRotation = value]
    /\ UNCHANGED ms
    /\ EnvFrame

\* a flying missile moves: its position and its distance to its target
MoveMissile(id, point, distance) ==
    /\ ~ms[id].isDestroyedMissile
    /\ <<ms[id].missileCurrentPoint, ms[id].missileTargetDistance>>
         # <<point, distance>>
    /\ ms' = [ms EXCEPT ![id].missileCurrentPoint = point,
                        ![id].missileTargetDistance = distance]
    /\ UNCHANGED fo
    /\ EnvFrame

\* a missile is destroyed by another holder of it
DestroyMissile(id) ==
    /\ ~ms[id].isDestroyedMissile
    /\ ms' = destroyMissile(ms, id)
    /\ UNCHANGED fo
    /\ EnvFrame

(***************************************************************************)
(* The consumer of the events: the arrays it receives are new, their       *)
(* elements are the objects the engine holds.                              *)
(***************************************************************************)
ConsumerFrame ==
    /\ events' = <<>>
    /\ calls' = <<>>
    /\ lastOp' = Op("consumer")
    /\ UNCHANGED <<ms, isEnabled, flightObjects, missiles, snrVars, supplyVars>>

\* the consumer writes the distance of element i of the targets of the
\* update event it has just received
ConsumerMutatesTarget(i, value) ==
    /\ \E k \in 1..Len(events) :
         /\ events[k].name = "update"
         /\ i \in 1..Len(events[k].arg.targets)
         /\ events[k].arg.targets[i].distance # value
    /\ recognizedTargets' = [recognizedTargets EXCEPT ![i].distance = value]
    /\ UNCHANGED <<fo, flightMissiles>>
    /\ ConsumerFrame

\* the consumer writes the velocity of element i of the missiles of the
\* update event it has just received
ConsumerMutatesMissile(i, value) ==
    /\ \E k \in 1..Len(events) :
         /\ events[k].name = "update"
         /\ i \in 1..Len(events[k].arg.missiles)
         /\ events[k].arg.missiles[i].velocity # value
         /\ flightMissiles' =
                [flightMissiles EXCEPT
                   ![events[k].arg.missiles[i].identifier].velocity = value]
    /\ UNCHANGED <<fo, recognizedTargets>>
    /\ ConsumerFrame

\* the consumer moves element i of the list of the updateBIP event it has
\* just received
ConsumerMutatesFlightObject(i, point) ==
    /\ \E k \in 1..Len(events) :
         /\ events[k].name = "updateBIP"
         /\ i \in 1..Len(events[k].arg)
         /\ fo[events[k].arg[i].identifier].currentPoint # point
         /\ fo' = [fo EXCEPT ![events[k].arg[i].identifier].currentPoint = point]
    /\ UNCHANGED <<recognizedTargets, flightMissiles>>
    /\ ConsumerFrame

InSeq(seq, x) == \E i \in 1..Len(seq) : seq[i] = x

\* the state after construction; no flight entity has started
Init ==
    /\ fo = [id \in FlightObjectIds |->
               [currentPoint |-> StartPoint, isLaunched |-> FALSE,
                isDestroyed |-> FALSE, rcs |-> rcs, velocity |-> Velocity,
                currentRotation |-> 0]]
    /\ ms = [id \in MissileIds |->
               [missileCurrentPoint |-> MissileStartPoint,
                missileTargetDistance |-> 3000,
                missileKillRadius |-> KillRadius,
                isDestroyedMissile |-> FALSE]]
    /\ isEnabled = FALSE
    /\ flightObjects = <<>>
    /\ missiles = <<>>
    /\ recognizedTargets = <<>>
    /\ flightMissiles = <<>>
    /\ azimut = -(PI \div 2)
    /\ verticalAngle = 0
    /\ indicatorTargetDistance = initialDistance
    /\ rayWidth = initialRayWidth
    /\ snrFlightObjects = <<>>
    /\ snrMissiles = <<>>
    /\ trackTargetInterval = 0
    /\ trackTargetDistanceInterval = 0
    /\ trackingTargetIdentifier = NullId
    /\ timers = {}
    /\ shownTargets = {}
    /\ events = <<>>
    /\ calls = <<>>
    /\ lastOp = Op("constructor")
    /\ supply = DefaultValues
    /\ timeouts = {}
    /\ powerCall = FALSE

(***************************************************************************)
(* Recognition: two flight objects that launch, move, land and are         *)
(* destroyed; no missile is registered.                                    *)
(***************************************************************************)
NextTargets ==
    \/ \E value \in BOOLEAN : setIsEnabled(value)
    \/ \E id \in FlightObjectIds : addFlightObject(id)
    \/ Tick
    \/ TickBIP
    \/ \E id \in FlightObjectIds, value \in BOOLEAN :
         InSeq(flightObjects, id) /\ SetLaunched(id, value)
    \/ \E id \in FlightObjectIds, point \in Positions :
         InSeq(flightObjects, id) /\ fo[id].isLaunched /\ Move(id, point)
    \/ \E id \in FlightObjectIds : InSeq(flightObjects, id) /\ Destroy(id)

SpecTargets == Init /\ [][NextTargets]_vars

(***************************************************************************)
(* Missile sweep: two missiles, and two flight objects that are placed but *)
(* not launched.                                                           *)
(***************************************************************************)
NextMissiles ==
    \/ \E value \in BOOLEAN : setIsEnabled(value)
    \/ \E id \in FlightObjectIds : addFlightObject(id)
    \/ \E id \in MissileIds : addMissile(id)
    \/ Tick
    \/ \E id \in FlightObjectIds, point \in KillZonePositions :
         InSeq(flightObjects, id) /\ Move(id, point)
    \/ \E id \in MissileIds, point \in MissilePositions,
          distance \in MissileTargetDistances :
         InSeq(missiles, id) /\ MoveMissile(id, point, distance)
    \/ \E id \in MissileIds : InSeq(missiles, id) /\ DestroyMissile(id)

SpecMissiles == Init /\ [][NextMissiles]_vars

(***************************************************************************)
(* The enabled gate: one flight object and one missile, with everything    *)
(* their owners can do to them.                                            *)
(***************************************************************************)
NextGate ==
    \/ \E value \in BOOLEAN : setIsEnabled(value)
    \/ addFlightObject("a")
    \/ addMissile(1)
    \/ Tick
    \/ TickBIP
    \/ \E value \in BOOLEAN :
         InSeq(flightObjects, "a") /\ SetLaunched("a", value)
    \/ \E point \in Positions : InSeq(flightObjects, "a") /\ Move("a", point)
    \/ InSeq(flightObjects, "a") /\ Destroy("a")
    \/ \E point \in MissilePositions, distance \in MissileTargetDistances :
         InSeq(missiles, 1) /\ MoveMissile(1, point, distance)
    \/ InSeq(missiles, 1) /\ DestroyMissile(1)

SpecGate == Init /\ [][NextGate]_vars

(***************************************************************************)
(* Capture: the Beam Tracker with two flight objects.                      *)
(***************************************************************************)
\* what the operator dials
AzimutInputs == {90}
VerticalAngleInputs == {0, 80}
DistanceInputs == {12000, 70000}

NextCapture ==
    \/ \E deg \in AzimutInputs : setAzimut(deg)
    \/ \E deg \in VerticalAngleInputs : setVerticalAngle(deg)
    \/ \E distance \in DistanceInputs : setIndicatorTargetDistance(distance)
    \/ \E id \in FlightObjectIds : snrAddFlightObject(id)
    \/ CaptureTargetByDirection
    \/ ResetCaptureTargetByDirection
    \/ CaptureTargetByDistance
    \/ ResetCaptureTargetByDistance
    \/ SnrTick
    \/ TrackTargetByDirectionTick
    \/ TrackTargetByDistanceTick
    \/ \E id \in FlightObjectIds, point \in Positions \ {StartPoint} :
         InSeq(snrFlightObjects, id) /\ Move(id, point)
    \/ \E id \in FlightObjectIds : InSeq(snrFlightObjects, id) /\ Destroy(id)

SpecCapture == Init /\ [][NextCapture]_vars

(***************************************************************************)
(* Reset: the Beam Tracker with one flight object and two missiles.        *)
(***************************************************************************)
NextReset ==
    \/ \E deg \in AzimutInputs : setAzimut(deg)
    \/ \E deg \in VerticalAngleInputs : setVerticalAngle(deg)
    \/ \E distance \in DistanceInputs : setIndicatorTargetDistance(distance)
    \/ snrAddFlightObject("a")
    \/ snrAddMissile(1)
    \/ InSeq(snrMissiles, 1) /\ snrAddMissile(2)
    \/ CaptureTargetByDirection
    \/ ResetCaptureTargetByDirection
    \/ CaptureTargetByDistance
    \/ ResetCaptureTargetByDistance
    \/ SnrTick
    \/ TrackTargetByDirectionTick
    \/ TrackTargetByDistanceTick
    \/ \E point \in Positions \ {StartPoint} :
         InSeq(snrFlightObjects, "a") /\ Move("a", point)
    \/ InSeq(snrFlightObjects, "a") /\ Destroy("a")

SpecReset == Init /\ [][NextReset]_vars

(***************************************************************************)
(* Emission: flight object "a" and missile 1, and a consumer that writes   *)
(* into what the events hand it.                                           *)
(***************************************************************************)
NextAlias ==
    \/ \E value \in BOOLEAN : setIsEnabled(value)
    \/ addFlightObject("a")
    \/ addMissile(1)
    \/ Tick
    \/ TickBIP
    \/ InSeq(flightObjects, "a") /\ SetLaunched("a", TRUE)
    \/ \E point \in KillZonePositions :
         InSeq(flightObjects, "a") /\ Move("a", point)
    \/ ConsumerMutatesTarget(1, 0)
    \/ ConsumerMutatesMissile(1, 0)
    \/ ConsumerMutatesFlightObject(1, StartPoint)

SpecAlias == Init /\ [][NextAlias]_vars

(***************************************************************************)
(* Correlation: two flight objects that come into and go out of the radar  *)
(* picture on one bearing, and the query on that bearing and on another.   *)
(***************************************************************************)
QueryPositions == KillZonePositions \cup {StartPoint}
QueryAzimuts == {0, PI}

NextQuery ==
    \/ setIsEnabled(TRUE)
    \/ \E id \in FlightObjectIds : addFlightObject(id)
    \/ Tick
    \/ \E id \in FlightObjectIds :
         InSeq(flightObjects, id) /\ SetLaunched(id, TRUE)
    \/ \E id \in FlightObjectIds, point \in QueryPositions :
         InSeq(flightObjects, id) /\ fo[id].isLaunched /\ Move(id, point)
    \/ \E az \in QueryAzimuts : getTargetOnAzimutAndElevation(az, 0)

SpecQuery == Init /\ [][NextQuery]_vars

(***************************************************************************)
(* Steering: the three manual steering calls on an SNR that tracks         *)
(* nothing.                                                                *)
(***************************************************************************)
AzimutDegrees == {-730, -370, -10, 10, 180, 370, 730}
VerticalDegrees == {-6, -5, -4, 0, 74, 75, 76}
CursorDistances == {12000, 30000, 70000}

NextSteer ==
    \/ \E deg \in AzimutDegrees : setAzimut(deg)
    \/ \E deg \in VerticalDegrees : setVerticalAngle(deg)
    \/ \E distance \in CursorDistances : setIndicatorTargetDistance(distance)

SpecSteer == Init /\ [][NextSteer]_vars

(***************************************************************************)
(* Projection: two flight objects on and beside the axis of a beam that    *)
(* is steered by hand.                                                     *)
(***************************************************************************)
OnAxis == Point(20000, 0, 36)
\* atan2(500, 28645) is 1 degree and atan2(1500, 28622) is 3 degrees
OneDegreeOff == Point(28645, 500, 36)
ThreeDegreesOff == Point(28622, 1500, 36)
BeamPositions == {OnAxis, OneDegreeOff, ThreeDegreesOff}
BeamVerticalDegrees == {0, 3}

NextBeam ==
    \/ setAzimut(90)
    \/ \E deg \in BeamVerticalDegrees : setVerticalAngle(deg)
    \/ \E id \in FlightObjectIds : snrAddFlightObject(id)
    \/ SnrTick
    \/ \E id \in FlightObjectIds :
         InSeq(snrFlightObjects, id) /\ SetLaunched(id, TRUE)
    \/ \E id \in FlightObjectIds, point \in BeamPositions :
         InSeq(snrFlightObjects, id) /\ fo[id].isLaunched /\ Move(id, point)
    \/ \E id \in FlightObjectIds :
         InSeq(snrFlightObjects, id) /\ fo[id].isLaunched /\ Destroy(id)

SpecBeam == Init /\ [][NextBeam]_vars

(***************************************************************************)
(* Target parameters: flight object "a" around the radar, with several     *)
(* radar cross-sections and headings.                                      *)
(***************************************************************************)
RecognitionPositions ==
    { Point(20000, 0, 36),       \* east
      Point(0, -20000, 36),      \* south: atan2 is negative
      Point(0, 0, 36),           \* above the radar: the distance is 0
      Point(-150000, 0, 2036),   \* west, 150 km
      Point(50000, 0, 5000) }    \* 50 km east, 5 km high
RcsValues == {0, 1, 10}
Rotations == {0, PI}

NextRecognition ==
    \/ setIsEnabled(TRUE)
    \/ addFlightObject("a")
    \/ Tick
    \/ InSeq(flightObjects, "a") /\ SetLaunched("a", TRUE)
    \/ \E point \in RecognitionPositions :
         InSeq(flightObjects, "a") /\ Move("a", point)
    \/ \E value \in RcsValues : InSeq(flightObjects, "a") /\ SetRcs("a", value)
    \/ \E value \in Rotations :
         InSeq(flightObjects, "a") /\ SetRotation("a", value)

SpecRecognition == Init /\ [][NextRecognition]_vars

(***************************************************************************)
(* Follow loops: the Beam Tracker with flight object "a", which flies in   *)
(* and out of the bounds of the tracker, and missile 1.                    *)
(***************************************************************************)
NextFollow ==
    \/ \E deg \in AzimutInputs : setAzimut(deg)
    \/ \E deg \in VerticalAngleInputs : setVerticalAngle(deg)
    \/ \E distance \in DistanceInputs : setIndicatorTargetDistance(distance)
    \/ snrAddFlightObject("a")
    \/ snrAddMissile(1)
    \/ CaptureTargetByDirection
    \/ ResetCaptureTargetByDirection
    \/ CaptureTargetByDistance
    \/ ResetCaptureTargetByDistance
    \/ SnrTick
    \/ TrackTargetByDirectionTick
    \/ TrackTargetByDistanceTick
    \/ \E value \in BOOLEAN :
         InSeq(snrFlightObjects, "a") /\ SetLaunched("a", value)
    \/ \E point \in Positions : InSeq(snrFlightObjects, "a") /\ Move("a", point)
    \/ InSeq(snrFlightObjects, "a") /\ Destroy("a")

SpecFollow == Init /\ [][NextFollow]_vars

(***************************************************************************)
(* Supply: the three switches of the supply panel and their timeouts.      *)
(***************************************************************************)
NextSupply ==
    \/ \E value \in BOOLEAN : setEnabledPower(value)
    \/ \E value \in BOOLEAN : setEnablerMainRadar(value)
    \/ \E value \in BOOLEAN : setIsEnabledTargetRadarTransmitter(value)
    \/ TimeoutFires
    \/ TimePasses

SpecSupply == Init /\ [][NextSupply]_vars

(***************************************************************************)
(* Designation: flight object "a" near and beyond the maximal distance,    *)
(* and the designation of a known and of an unknown identifier.            *)
(***************************************************************************)
DesignationPositions ==
    { Point(20000, 0, 36),
      Point(119500, 0, 5000),    \* 500 m inside MAX_DISTANCE
      Point(120000, 0, 5000),    \* at MAX_DISTANCE
      Point(-150000, 0, 2036) }  \* beyond MAX_DISTANCE
\* values of Math.random(), in thousandths
Randoms == {0, 500, 999}

NextDesignation ==
    \/ addFlightObject("a")
    \/ \E point \in DesignationPositions :
         InSeq(flightObjects, "a") /\ Move("a", point)
    \/ InSeq(flightObjects, "a") /\ Destroy("a")
    \/ \E id \in FlightObjectIds, ra \in Randoms, re \in Randoms, rd \in Randoms :
         getFlightObjectDesignation(id, ra, re, rd)

SpecDesignation == Init /\ [][NextDesignation]_vars

(***************************************************************************)
(* Properties.                                                             *)
(***************************************************************************)
\* how many events named name with argument arg the sequence ev holds
CountEvents(ev, name, arg) ==
    Cardinality({i \in 1..Len(ev) : ev[i].name = name /\ ev[i].arg = arg})

\* how many events named name the sequence ev holds
CountNamed(ev, name) == Cardinality({i \in 1..Len(ev) : ev[i].name = name})

\* how many calls of op on id the sequence cs holds
CountCalls(cs, op, id) ==
    Cardinality({i \in 1..Len(cs) : cs[i].op = op /\ cs[i].id = id})

\* the flight object followed by the live interval with this handle
Followed(handle) == {t.flightObject : t \in {u \in timers : u.handle = handle}}

\* C1: whenever the distance follow loop is active, the direction follow
\* loop is active too and both follow the same flight object.
C1_DistanceTrackingFollowsDirectionTarget ==
    trackTargetDistanceInterval # 0 =>
        /\ trackTargetInterval # 0
        /\ Followed(trackTargetDistanceInterval) = Followed(trackTargetInterval)
        /\ Followed(trackTargetInterval) = {trackingTargetIdentifier}

\* C2: captureTargetByDistance called while direction-capture is Idle leaves
\* distance-capture Idle and emits no isCapturedByDistance = true; while
\* direction-capture tracks T, it starts distance tracking, and says so, only
\* if the range cursor is within distanceDetectRange of the range of T.
C2_DistanceCaptureNeedsDirectionAndWindow ==
    [][lastOp'.op = "captureTargetByDistance" =>
         LET captured ==
                 \/ CountEvents(events', "isCapturedByDistance", TRUE) > 0
                 \/ (trackTargetDistanceInterval = 0
                       /\ trackTargetDistanceInterval' # 0)
         IN  /\ trackTargetInterval = 0 =>
                 trackTargetDistanceInterval' = 0 /\ ~captured
             /\ captured =>
                 /\ trackTargetInterval # 0
                 /\ LET p == fo[trackingTargetIdentifier].currentPoint
                    IN  /\ Hypot(p.x, p.y) - indicatorTargetDistance
                             < distanceDetectRange
                        /\ indicatorTargetDistance - Hypot(p.x, p.y)
                             < distanceDetectRange]_vars

\* C2 witness: captureTargetByDistance has run with direction-capture Idle
\* and a registered flight object inside the window of the range cursor.
C2_Witness ==
    /\ lastOp.op = "captureTargetByDistance"
    /\ ~lastOp.direction
    /\ trackTargetDistanceInterval = 0
    /\ \E i \in 1..Len(snrFlightObjects) :
         LET p == fo[snrFlightObjects[i]].currentPoint
         IN  Abs(Hypot(p.x, p.y) - indicatorTargetDistance) < distanceDetectRange

\* the recognition pass of an enabled tick has just run
EnabledTickStep == lastOp'.op = "tick" /\ isEnabled

\* flight object id is launched, not destroyed, above the horizon and
\* strictly inside the elevation gate
Recognizable(id) ==
    LET p == fo[id].currentPoint
    IN  /\ fo[id].isLaunched
        /\ ~fo[id].isDestroyed
        /\ isInVision(p, Hypot(p.x, p.y))
        /\ inAllowedElevation(p, Hypot(p.x, p.y))

\* C3: after every recognition pass of an enabled engine, a registered
\* flight object has an entry in recognizedTargets if and only if it is
\* launched, not destroyed, passes the horizon test and lies strictly inside
\* the elevation gate.
C3_EntryIffRecognizable ==
    [][EnabledTickStep =>
         \A i \in 1..Len(flightObjects) :
             HasKey(recognizedTargets', flightObjects[i])
                 <=> Recognizable(flightObjects[i])]_vars

\* C4: a flight object whose isLaunched flag is false has no entry in
\* recognizedTargets, is in the targets of no update event, and no delete
\* event is emitted for it.
C4_NotLaunchedNeverRecognized ==
    \A id \in FlightObjectIds :
        ~fo[id].isLaunched =>
            /\ ~HasKey(recognizedTargets, id)
            /\ CountEvents(events, "delete", id) = 0
            /\ \A i \in 1..Len(events) :
                 events[i].name = "update" => ~HasKey(events[i].arg.targets, id)

\* C5: an enabled tick emits delete(id) exactly once if it removes the entry
\* of id from recognizedTargets, and not at all if it removes none.
C5_DeleteOncePerRemoval ==
    [][EnabledTickStep =>
         \A id \in FlightObjectIds :
             CountEvents(events', "delete", id) =
                 IF HasKey(recognizedTargets, id)
                    /\ ~HasKey(recognizedTargets', id)
                 THEN 1 ELSE 0]_vars

\* C6: two successive direction resets, the first from Tracking, emit
\* isCapturedByDirection = false exactly once in total; likewise two
\* successive distance resets emit isCapturedByDistance = false once.
C6_ResetTwiceEmitsOnce ==
    [][/\ (/\ lastOp.op = "resetCaptureTargetByDirection"
           /\ lastOp.direction
           /\ lastOp'.op = "resetCaptureTargetByDirection")
          => CountEvents(events, "isCapturedByDirection", FALSE)
               + CountEvents(events', "isCapturedByDirection", FALSE) = 1
       /\ (/\ lastOp.op = "resetCaptureTargetByDistance"
           /\ lastOp.distance
           /\ lastOp'.op = "resetCaptureTargetByDistance")
          => CountEvents(events, "isCapturedByDistance", FALSE)
               + CountEvents(events', "isCapturedByDistance", FALSE) = 1]_vars

\* C7: resetCaptureTargetByDirection called while direction-capture is Idle
\* emits no event, calls destroyMissile() on no missile, and leaves the beam
\* and both capture states unchanged.
C7_ResetWhenIdleIsNoOp ==
    [][(lastOp'.op = "resetCaptureTargetByDirection" /\ trackTargetInterval = 0)
         => /\ events' = <<>>
            /\ calls' = <<>>
            /\ UNCHANGED <<ms, azimut, verticalAngle, indicatorTargetDistance,
                           trackTargetInterval, trackTargetDistanceInterval,
                           trackingTargetIdentifier, timers>>]_vars

\* the kill condition of registered missile id holds before the sweep
Fires(id) ==
    /\ InSeq(missiles, id)
    /\ ~ms[id].isDestroyedMissile
    /\ ms[id].missileTargetDistance <= ms[id].missileKillRadius

\* the square of the 3-D Euclidean distance of two points
Distance2(p, q) ==
    (p.x - q.x) * (p.x - q.x) + (p.y - q.y) * (p.y - q.y)
      + (p.z - q.z) * (p.z - q.z)

\* C8: an enabled sweep calls destroyMissile() once on every registered live
\* missile with targetDistance <= killRadius and kill() once on every
\* registered flight object within killRadius of such a missile; it makes no
\* other destroyMissile() or kill() call.
C8_KillSweep ==
    [][EnabledTickStep =>
         /\ \A m \in MissileIds :
              CountCalls(calls', "destroyMissile", m) =
                  IF Fires(m) THEN 1 ELSE 0
         /\ \A id \in FlightObjectIds :
              CountCalls(calls', "kill", id) =
                  Cardinality({m \in MissileIds :
                      /\ Fires(m)
                      /\ InSeq(flightObjects, id)
                      /\ Distance2(fo[id].currentPoint,
                                   ms[m].missileCurrentPoint)
                           <= ms[m].missileKillRadius
                                * ms[m].missileKillRadius})
         /\ Len(calls') =
                Cardinality({i \in 1..Len(calls') :
                    calls'[i].op \in {"destroyMissile", "kill"}})]_vars

\* C8 witness: a sweep in which one missile fired and killed both objects
\* while the other missile made no call.
C8_Witness ==
    /\ lastOp.op = "tick"
    /\ Len(missiles) = 2
    /\ CountCalls(calls, "destroyMissile", 1) = 1
    /\ CountCalls(calls, "destroyMissile", 2) = 0
    /\ CountCalls(calls, "kill", "a") = 1
    /\ CountCalls(calls, "kill", "b") = 1

\* C9: after every missile sweep a snapshot exists in flightMissiles for a
\* registered missile if and only if that missile is not destroyed.
C9_SnapshotIffNotDestroyed ==
    (lastOp.op = "tick" /\ isEnabled) =>
        \A i \in 1..Len(missiles) :
            (missiles[i] \in DOMAIN flightMissiles)
                <=> ~ms[missiles[i]].isDestroyedMissile

\* C10: while the engine is disabled a firing of either timer emits nothing,
\* calls nothing and changes neither table; both timers can always fire;
\* while enabled a fast tick emits exactly one update and a slow tick
\* exactly one updateBIP.
C10_DisabledTimersIdle ==
    /\ [](ENABLED Tick /\ ENABLED TickBIP)
    /\ [][/\ (lastOp'.op \in {"tick", "tickBIP"} /\ ~isEnabled)
             => /\ events' = <<>>
                /\ calls' = <<>>
                /\ UNCHANGED <<fo, ms, recognizedTargets, flightMissiles>>
          /\ (lastOp'.op = "tick" /\ isEnabled)
             => /\ CountNamed(events', "update") = 1
                /\ CountNamed(events', "updateBIP") = 0
          /\ (lastOp'.op = "tickBIP" /\ isEnabled)
             => /\ CountNamed(events', "updateBIP") = 1
                /\ Len(events') = 1]_vars

\* C10 witness: a fast tick has fired while the engine is disabled and both
\* tables still hold what the last enabled tick left.
C10_Witness ==
    /\ lastOp.op = "tick"
    /\ ~isEnabled
    /\ Len(recognizedTargets) > 0
    /\ DOMAIN flightMissiles # {}
    /\ events = <<>>

\* C11: a consumer that writes into an element of the targets or missiles
\* of an update event, or of the list of an updateBIP event, changes neither
\* recognizedTargets, flightMissiles nor the registered flight objects.
C11_EmittedCollectionsAreCopies ==
    [][lastOp'.op = "consumer"
         => UNCHANGED <<recognizedTargets, flightMissiles, fo>>]_vars

\* the registry positions of the flight objects whose recognized target
\* lies within the tolerance windows of the query (az, el)
Matching(az, el) ==
    {i \in 1..Len(flightObjects) :
        \E k \in 1..Len(recognizedTargets) :
            /\ recognizedTargets[k].identifier = flightObjects[i]
            /\ 2 * Abs(recognizedTargets[k].azimut - az)
                 <= RADAR_AZIMUT_DETECT_ACCURACY
            /\ 2 * Abs(recognizedTargets[k].elevation - el)
                 <= RADAR_ELEVATION_DETECT_ACCURACY}

\* C12: getTargetOnAzimutAndElevation returns null when no recognized
\* target lies within both tolerance windows, and otherwise the matching
\* target whose flight object was registered first.
C12_FirstRegisteredMatch ==
    lastOp.op = "getTargetOnAzimutAndElevation" =>
        LET matching == Matching(lastOp.azimut, lastOp.elevation)
        IN  IF matching = {} THEN lastOp.result = NullId
            ELSE \E i \in matching :
                   /\ \A j \in matching : i <= j
                   /\ lastOp.result = flightObjects[i]

\* C13: for every degree value d, setAzimut(d + 360) leaves the same beam
\* azimuth, and makes the same display call, as setAzimut(d).
C13_AzimutWrapsModulo360 ==
    [][\A d \in AzimutDegrees : setAzimut(d) => setAzimut(d + 360)]_vars

\* C14: setVerticalAngle(deg) sets the vertical angle and notifies the
\* indicator display if minVerticalAngle < deg < maxVerticalAngle; for any
\* other input, the bounds included, it changes nothing and calls nothing.
C14_VerticalAngleStrictBounds ==
    [][\A deg \in VerticalDegrees :
         setVerticalAngle(deg) =>
           IF minVerticalAngle < deg /\ deg < maxVerticalAngle
           THEN /\ verticalAngle' = DegToRad(deg)
                /\ calls' = <<Call("indicators.setVerticalAngle",
                                   DegToRad(deg))>>
           ELSE /\ calls' = <<>>
                /\ UNCHANGED <<azimut, verticalAngle, indicatorTargetDistance,
                               trackTargetInterval,
                               trackTargetDistanceInterval,
                               trackingTargetIdentifier, timers>>]_vars

\* C14 witness: setVerticalAngle has just ignored its input after the
\* vertical angle had been set to one degree inside the upper bound.
C14_Witness ==
    /\ lastOp.op = "setVerticalAngle"
    /\ calls = <<>>
    /\ verticalAngle = DegToRad(maxVerticalAngle - 1)

\* C15: while direction-capture is Tracking, setAzimut and setVerticalAngle
\* change neither the beam azimuth nor the vertical angle, and while
\* distance-capture is Tracking setIndicatorTargetDistance does not change
\* the range cursor.
C15_SteeringDisabledWhileTracking ==
    [][/\ (lastOp'.op \in {"setAzimut", "setVerticalAngle"}
            /\ trackTargetInterval # 0)
          => UNCHANGED <<azimut, verticalAngle>>
       /\ (lastOp'.op = "setIndicatorTargetDistance"
            /\ trackTargetDistanceInterval # 0)
          => UNCHANGED indicatorTargetDistance]_vars

\* how often the tick emits the three telemetry events, if it emits each
\* of them equally often
TelemetryCount(ev) ==
    IF /\ CountNamed(ev, "targetDistance") = CountNamed(ev, "targetVelocity")
       /\ CountNamed(ev, "targetDistance") = CountNamed(ev, "targetHeight")
    THEN CountNamed(ev, "targetDistance")
    ELSE -1

\* C16: a tick of the SNR that starts with direction-capture Tracking a
\* registered live flight object emits targetDistance, targetVelocity and
\* targetHeight once each, whether or not distance-capture is Tracking; a
\* tick that starts with direction-capture Idle emits none of them.
C16_TelemetryWhileDirectionTracking ==
    [][lastOp'.op = "snrTick" =>
         TelemetryCount(events') =
             IF /\ trackTargetInterval # 0
                /\ InSeq(snrFlightObjects, trackingTargetIdentifier)
             THEN 1 ELSE 0]_vars

\* C17: a tick of the SNR that finds the flight object tracked by
\* direction-capture destroyed leaves both captures Idle, both follow loops
\* cancelled and the tracked identifier cleared, and calls removeTarget for
\* it once on each display; a tick that starts with direction-capture Idle
\* resets nothing and emits no capture event.
C17_DestroyedTargetReleased ==
    [][lastOp'.op = "snrTick" =>
         /\ (trackTargetInterval # 0
              /\ fo[trackingTargetIdentifier].isDestroyed)
            => /\ trackTargetInterval' = 0
               /\ trackTargetDistanceInterval' = 0
               /\ trackingTargetIdentifier' = NullId
               /\ timers' = {}
               /\ CountEvents(events', "isCapturedByDirection", FALSE) = 1
               /\ CountCalls(calls', "target.removeTarget",
                             trackingTargetIdentifier) = 1
               /\ CountCalls(calls', "distance.removeTarget",
                             trackingTargetIdentifier) = 1
         /\ trackTargetInterval = 0
            => /\ CountNamed(events', "isCapturedByDirection") = 0
               /\ CountNamed(events', "isCapturedByDistance") = 0
               /\ \A m \in MissileIds :
                    CountCalls(calls', "destroyMissile", m) = 0
               /\ UNCHANGED <<trackTargetInterval, trackTargetDistanceInterval,
                              trackingTargetIdentifier, timers>>]_vars

\* C17 witness: a tick that started with both captures Tracking has found
\* the tracked flight object destroyed and released it.
C17_Witness ==
    /\ lastOp.op = "snrTick"
    /\ lastOp.direction
    /\ lastOp.distance
    /\ trackTargetInterval = 0
    /\ trackTargetDistanceInterval = 0
    /\ \E id \in FlightObjectIds :
         /\ fo[id].isDestroyed
         /\ CountCalls(calls, "target.removeTarget", id) = 1

\* flight object id gets setTargetParams once on both displays and no
\* removeTarget
Shown(cs, id) ==
    /\ CountCalls(cs, "target.setTargetParams", id) = 1
    /\ CountCalls(cs, "distance.setTargetParams", id) = 1
    /\ CountCalls(cs, "target.removeTarget", id) = 0
    /\ CountCalls(cs, "distance.removeTarget", id) = 0

\* flight object id gets removeTarget once on both displays and no
\* setTargetParams
Removed(cs, id) ==
    /\ CountCalls(cs, "target.setTargetParams", id) = 0
    /\ CountCalls(cs, "distance.setTargetParams", id) = 0
    /\ CountCalls(cs, "target.removeTarget", id) = 1
    /\ CountCalls(cs, "distance.removeTarget", id) = 1

C20_ClosingIsNegative ==
    \A i \in 1..Len(recognizedTargets) :
        LET e == recognizedTargets[i]
        IN  /\ (e.x = 50000 /\ e.y = 0 /\ e.height = 5000 /\ e.rotation = PI)
               => /\ e.distance = 50000
                  /\ e.azimut = 0
                  /\ e.radialVelocity = -Velocity
            /\ Cos(e.rotation - e.azimut) = -1000
               => e.radialVelocity = -Velocity
            /\ Cos(e.rotation - e.azimut) = 1000
               => e.radialVelocity = Velocity

\* flight object id satisfies the two tolerances of captureTargetByDirection
\* for the beam as it is
DirectionMatch(id) ==
    LET point == fo[id].currentPoint
        targetSpotAngle == TargetSpotAngle(point, rayWidth)
    IN  /\ Abs(azimut - Atan2(point.y, point.x)) < Abs(targetSpotAngle) * 2
        /\ Abs(verticalAngle - VerticalAngleOf(point)) < Abs(targetSpotAngle)

\* the registered flight objects that satisfy the tolerances, by index
DirectionMatches ==
    {i \in 1..Len(snrFlightObjects) : DirectionMatch(snrFlightObjects[i])}

\* C21: captureTargetByDirection called while some registered flight objects
\* satisfy the tolerances leaves the earliest-registered of them tracked and
\* emits isCapturedByDirection = true exactly once.
C21_FirstMatchCaptured ==
    [][(lastOp'.op = "captureTargetByDirection" /\ DirectionMatches # {})
         => /\ \E i \in DirectionMatches :
                 /\ \A j \in DirectionMatches : i <= j
                 /\ trackingTargetIdentifier' = snrFlightObjects[i]
            /\ CountEvents(events', "isCapturedByDirection", TRUE) = 1]_vars

\* the handlers of the SNR that can reset the direction capture
ResettingOps ==
    {"resetCaptureTargetByDirection", "trackTargetByDirectionTick",
     "trackTargetByDistanceTick", "snrTick"}

\* this step is a handler that takes direction-capture from Tracking to Idle
DirectionResetStep ==
    /\ lastOp'.op \in ResettingOps
    /\ trackTargetInterval # 0
    /\ trackTargetInterval' = 0

\* C22: resetCaptureTargetByDirection called in Tracking takes
\* direction-capture to Idle, and every handler that takes it from Tracking
\* to Idle leaves no direction follow loop live, emits
\* isCapturedByDirection = false, calls destroyMissile() on every missile
\* registered with the SNR, and leaves distance-capture Idle with no
\* distance follow loop live.
C22_DirectionResetReleasesAll ==
    [][/\ (lastOp'.op = "resetCaptureTargetByDirection"
             /\ trackTargetInterval # 0)
          => trackTargetInterval' = 0
       /\ DirectionResetStep
          => /\ trackingTargetIdentifier' = NullId
             /\ timers' = {}
             /\ CountEvents(events', "isCapturedByDirection", FALSE) = 1
             /\ CountEvents(events', "isCapturedByDistance", FALSE) >= 1
             /\ trackTargetDistanceInterval' = 0
             /\ \A i \in 1..Len(snrMissiles) :
                  /\ CountCalls(calls', "destroyMissile", snrMissiles[i]) = 1
                  /\ ms'[snrMissiles[i]].isDestroyedMissile]_vars

\* C22 witness: a step of the direction follow loop that started with both
\* captures Tracking has reset them and destroyed the registered missile.
C22_Witness ==
    /\ lastOp.op = "trackTargetByDirectionTick"
    /\ lastOp.direction
    /\ lastOp.distance
    /\ trackTargetInterval = 0
    /\ snrMissiles # <<>>
    /\ CountCalls(calls, "destroyMissile", snrMissiles[1]) = 1

\* C23: whenever the last setEnabledPower call was setEnabledPower(false),
\* isEnabledPower, isEnabledMainRadar and isEnabledTargetRadarTransmitter
\* are false and the Detection Engine is disabled.
C23_PowerOffIsFinal ==
    ~powerCall =>
        /\ ~supply.isEnabledPower
        /\ ~supply.isEnabledMainRadar
        /\ ~supply.isEnabledTargetRadarTransmitter
        /\ ~isEnabled

\* C24: the vertical angle of the beam lies within the bounds
\* minVerticalAngle and maxVerticalAngle.
C24_VerticalAngleWithinBounds ==
    /\ verticalAngle >= DegToRad(minVerticalAngle)
    /\ verticalAngle <= DegToRad(maxVerticalAngle)

\* C25: the range cursor lies strictly between 0 and maxDistance, and so
\* does every range a handler passes to setDistance of the distance display.
C25_RangeCursorWithinBounds ==
    /\ indicatorTargetDistance > 0
    /\ indicatorTargetDistance < maxDistance
    /\ \A i \in 1..Len(calls) :
         calls[i].op = "distance.setDistance"
            => calls[i].id > 0 /\ calls[i].id < maxDistance

\* flight object id is launched and not destroyed
Live(id) == fo[id].isLaunched /\ ~fo[id].isDestroyed

\* C26: captureTargetByDirection called in Idle while no registered flight
\* object is launched and not destroyed leaves direction-capture Idle and
\* emits no isCapturedByDirection = true, and neither it nor a step of the
\* direction follow loop moves the beam to such an object.
C26_NoCaptureOfDeadObject ==
    [][/\ (/\ lastOp'.op = "captureTargetByDirection"
           /\ trackTargetInterval = 0
           /\ \A i \in 1..Len(snrFlightObjects) : ~Live(snrFlightObjects[i]))
          => /\ trackTargetInterval' = 0
             /\ trackingTargetIdentifier' = NullId
             /\ CountEvents(events', "isCapturedByDirection", TRUE) = 0
             /\ UNCHANGED <<azimut, verticalAngle>>
       /\ (/\ lastOp'.op = "trackTargetByDirectionTick"
           /\ trackingTargetIdentifier # NullId
           /\ ~Live(trackingTargetIdentifier))
          => UNCHANGED <<azimut, verticalAngle>>]_vars

\* C27: a tick of the SNR that finds a registered flight object on the
\* target display destroyed, or no longer launched, calls removeTarget for
\* it, whether or not it is the tracked target, so that no such object
\* keeps its representation.
C27_DeadObjectLeavesDisplay ==
    [][lastOp'.op = "snrTick" =>
         \A id \in shownTargets :
             (InSeq(snrFlightObjects, id) /\ ~Live(id))
                => /\ CountCalls(calls', "target.removeTarget", id) >= 1
                   /\ id \notin shownTargets']_vars

\* C28: the update event of an enabled tick lists no flight object that is
\* destroyed when the tick ends, and an enabled tick that starts with an
\* entry for a destroyed registered flight object removes the entry and
\* emits delete for it.
C28_NoDestroyedTargetInUpdate ==
    [][EnabledTickStep =>
         /\ \A k \in 1..Len(events') :
              events'[k].name = "update" =>
                  \A i \in 1..Len(events'[k].arg.targets) :
                      ~fo'[events'[k].arg.targets[i].identifier].isDestroyed
         /\ \A id \in FlightObjectIds :
              (/\ InSeq(flightObjects, id)
               /\ HasKey(recognizedTargets, id)
               /\ fo[id].isDestroyed)
                 => /\ ~HasKey(recognizedTargets', id)
                    /\ CountEvents(events', "delete", id) >= 1]_vars

\* C29: the distance getFlightObjectDesignation returns for a registered,
\* not destroyed flight object never exceeds MAX_DISTANCE, and is exactly
\* MAX_DISTANCE - RADAR_DISTANCE_WINDOW when the true distance exceeds
\* MAX_DISTANCE.
C29_DesignationWithinMaxDistance ==
    (lastOp.op = "getFlightObjectDesignation" /\ lastOp.found) =>
        LET point == fo[lastOp.id].currentPoint
        IN  /\ lastOp.result.distance <= MAX_DISTANCE
            /\ Hypot(point.x, point.y) > MAX_DISTANCE
                 => lastOp.result.distance
                      = MAX_DISTANCE - RADAR_DISTANCE_WINDOW

\* the live intervals of one follow loop
TimersOf(kind) == {t \in timers : t.kind = kind}

\* C30: at most one interval of the direction follow loop and at most one
\* of the distance follow loop are live; a live interval is the one whose
\* handle is stored, and none is live while the stored handle is null.
C30_OneTimerPerFollowLoop ==
    /\ Cardinality(TimersOf("direction")) <= 1
    /\ Cardinality(TimersOf("distance")) <= 1
    /\ \A t \in TimersOf("direction") : t.handle = trackTargetInterval
    /\ \A t \in TimersOf("distance") : t.handle = trackTargetDistanceInterval
    /\ trackTargetInterval = 0 => TimersOf("direction") = {}
    /\ trackTargetDistanceInterval = 0 => TimersOf("distance") = {}
    /\ lastOp.op = "resetCaptureTargetByDirection" => timers = {}

\* C30 witness: captureTargetByDirection, called while both captures were
\* Tracking, has matched two flight objects, and one interval of each
\* follow loop is live.
C30_Witness ==
    /\ lastOp.op = "captureTargetByDirection"
    /\ lastOp.direction
    /\ lastOp.distance
    /\ CountEvents(events, "isCapturedByDirection", TRUE) = 2
    /\ Cardinality(TimersOf("direction")) = 1
    /\ Cardinality(TimersOf("distance")) = 1

====
